---- MODULE Spec2Model ----
(***************************************************************************)
(* The provider registry of the OpenAI-compatible gateway                  *)
(* (src/src/index.ts): the module-level cache providersMap /               *)
(* providersInitializedAt, its refresh initializeProviders, the freshness  *)
(* and authentication middlewares, and the languageModels resolver.        *)
(*                                                                         *)
(* Every `await` of the source is a suspension point: the code between two *)
(* awaits of one request is one atomic action, and the continuations of    *)
(* different requests interleave freely.                                   *)
(*                                                                         *)
(* index.ts holds two drafts of initializeProviders: the KV-backed one     *)
(* (lines 87-136, with the auth middleware of lines 152-163) and the       *)
(* earlier static one (lines 12-34, no auth middleware).  Spec is the      *)
(* KV-backed program; SpecDrafts lets either draft be the one loaded.      *)
(***************************************************************************)
EXTENDS Integers, Sequences, FiniteSets, TLC

\* ------------------------------------------------------------------ bounds
MaxOverlap == 2       \* requests that may be in flight together
MaxArrivals == 3      \* requests in one behaviour
MaxTicks == 1         \* clock advances in one behaviour
MaxWrites == 1        \* operator writes to PROVIDER_CONFIG in one behaviour

\* --------------------------------------------------------------- constants
CACHE_TTL_MS == 300000

\* The slots of the requests in flight; a request that is done leaves its
\* slot to the next arrival.
Reqs == 1 .. MaxOverlap

\* Date.now() at cold start: any value above CACHE_TTL_MS behaves alike,
\* because providersInitializedAt starts at 0.
StartTime == CACHE_TTL_MS + 1

\* The clock advances by a whole TTL, or by a millisecond more.
TickSizes == {CACHE_TTL_MS, CACHE_TTL_MS + 1}

\* ------------------------------------------------------------- environment
\* Keys of PROVIDER_CONFIG, in the order list() returns them.
AllKeys == <<"google", "openai">>
Keys == {AllKeys[i] : i \in 1 .. Len(AllKeys)}

\* The worker's string bindings: secrets and vars.
Env == [GOOGLE_API_KEY |-> "abc",
        GEMINI_API_KEY |-> "xyz",
        AI_GATEWAY_TOKEN |-> "tok",
        AI_GATEWAY_NAME |-> "openai-gateway"]

\* A value stored under a key of PROVIDER_CONFIG.  json tells what the text
\* is: "absent" (get resolves to null), "invalid" (not JSON, such as
\* "{oops"), "null" (the JSON text null), "object" (a JSON object carrying
\* the three fields).
Raw(json, provider, secret, path) ==
    [json |-> json, provider |-> provider,
     apiKeySecretName |-> secret, gatewayProviderPath |-> path]

Absent == Raw("absent", "", "", "")
InvalidJson == Raw("invalid", "", "", "")
JsonNull == Raw("null", "", "", "")

PathOf(provider) ==
    IF provider = "google" THEN "google-ai-studio" ELSE "openai"

Descriptors ==
    {Raw("object", p, s, PathOf(p)) :
        p \in {"google", "openai"}, s \in {"GOOGLE_API_KEY", "UNSET_API_KEY"}}

RawValues == {Absent, InvalidJson, JsonNull} \cup Descriptors

\* Google descriptors that differ in the secret they name or in the path
\* they route through, and the values of a store that holds only such
\* entries.
RotatedDescriptors ==
    {Raw("object", "google", "GOOGLE_API_KEY", "google-ai-studio"),
     Raw("object", "google", "GEMINI_API_KEY", "google-ai-studio"),
     Raw("object", "google", "GOOGLE_API_KEY", "google-vertex-ai")}

RotatedValues == {Absent} \cup RotatedDescriptors

\* What an operator does to an entry while the worker runs: delete it, or
\* put the valid google descriptor.
Written == {Absent, Raw("object", "google", "GOOGLE_API_KEY", PathOf("google"))}

\* CLIENT_KEYS: the allow-listed caller keys.
ClientKeys == {"k-valid"}

\* Authorization headers a request may carry, as the words between spaces.
NoHeader == <<>>
Headers == {NoHeader, <<"Bearer", "k-valid">>, <<"Bearer", "k-unknown">>}

\* Composite model ids a request may name, as the pieces between which
\* "/" stands as a piece of its own.
ModelIds == {<<"google", "/", "gemini">>, <<"openai", "/", "gpt">>}

\* Composite ids the resolver is asked for on its own: well formed, with a
\* second "/", without any, with an empty side, and naming a member of
\* Object.prototype (one that returns a value, one that looks up an
\* accessor, asked for a plain name, for __proto__ and for a key of the
\* map, one that throws, and one that is not a function).
ResolveIds ==
    {<<"google", "/", "gemini">>,
     <<"openai", "/", "gpt">>,
     <<"google", "/", "a", "/", "b">>,
     <<"google">>,
     <<"google", "/">>,
     <<"/", "gemini">>,
     <<"mistral", "/", "large">>,
     <<"constructor", "/", "gemini">>,
     <<"toString", "/", "gemini">>,
     <<"valueOf", "/", "gemini">>,
     <<"hasOwnProperty", "/", "gemini">>,
     <<"__lookupGetter__", "/", "gemini">>,
     <<"__lookupGetter__", "/", "__proto__">>,
     <<"__lookupSetter__", "/", "__proto__">>,
     <<"__lookupGetter__", "/", "google">>,
     <<"__defineGetter__", "/", "gemini">>,
     <<"__proto__", "/", "gemini">>}

\* ------------------------------------------------------------------ values
EmptyMap == [k \in {} |-> k]

NoCfg == [isNull |-> TRUE, provider |-> "", apiKeySecretName |-> "",
          gatewayProviderPath |-> ""]

NoModel == [factory |-> EmptyMap, modelName |-> <<>>]

\* A response: "403" (lines 155, 160), "error" (an exception left the
\* middleware), or "routed" with the id the router was asked for and what
\* languageModels returned for it.
Response(status, id, model) == [status |-> status, id |-> id, model |-> model]

NoResponse == Response("none", <<>>, NoModel)

\* ---------------------------------------------------------- pure functions
\* JSON.parse(raw), line 99: throws on text that is not JSON, yields null for
\* the text null, and the object otherwise.
JSONParse(raw) ==
    CASE raw.json = "invalid" -> [threw |-> TRUE, value |-> NoCfg]
      [] raw.json = "null" -> [threw |-> FALSE, value |-> NoCfg]
      [] OTHER ->
            [threw |-> FALSE,
             value |-> [isNull |-> FALSE, provider |-> raw.provider,
                        apiKeySecretName |-> raw.apiKeySecretName,
                        gatewayProviderPath |-> raw.gatewayProviderPath]]

\* hasSecret(env, key), lines 78-84: env[key] is a string.
hasSecret(env, key) == key \in DOMAIN env

\* gateway.getUrl(path) when it resolves: the gateway's address for the path.
getUrl(path) == <<"https://gw.example/", path>>

\* createGoogleGenerativeAI({baseURL, apiKey, headers}), lines 116-122: the
\* factory keeps the three settings it was built with.
createGoogleGenerativeAI(url, apiKey, token) ==
    [baseURL |-> url \o <<"/v1beta">>,
     apiKey |-> apiKey,
     authorization |-> <<"Bearer ", token>>]

\* providers[provider] = clientFactory, line 128.
SetEntry(map, key, factory) ==
    [k \in DOMAIN map \cup {key} |-> IF k = key THEN factory ELSE map[k]]

\* A freshness test that compares the clock, not the age, with the TTL.
IsStaleIgnoringBuiltAt(t, builtAt) == t > CACHE_TTL_MS

\* now - providersInitializedAt > CACHE_TTL_MS, lines 43 and 145
\* (!providersMap is never true: providersMap always holds an object).
IsStale(t, builtAt) == t - builtAt > CACHE_TTL_MS

\* String.prototype.split(sep) on a text given as its pieces.
RECURSIVE SplitFrom(_, _, _)
SplitFrom(s, sep, cur) ==
    IF s = <<>> THEN <<cur>>
    ELSE IF Head(s) = sep THEN <<cur>> \o SplitFrom(Tail(s), sep, <<>>)
    ELSE SplitFrom(Tail(s), sep, Append(cur, Head(s)))

Split(s, sep) == SplitFrom(s, sep, <<>>)

Undefined == <<"undefined">>

\* providersMap is a plain object (the {} of lines 67 and 90): a property
\* read on it that finds no own key goes on to Object.prototype.  Its
\* members, by what `providersMap[provider]?.(modelName)` does with them:
\* functions that return a value that is not null (a String object, a text,
\* the map itself, a boolean),
ReturnsValue ==
    {"constructor", "toString", "toLocaleString", "valueOf",
     "hasOwnProperty", "isPrototypeOf", "propertyIsEnumerable"}

\* functions that look their argument up as a property of the map and of
\* Object.prototype and return its getter or setter, undefined when it is
\* not an accessor,
LooksUpAccessor == {"__lookupGetter__", "__lookupSetter__"}

\* the accessor properties these find: Object.prototype has one, and the
\* map's own properties are all data properties (line 128),
Accessors == {<<"__proto__">>}

\* functions that throw a TypeError when their second argument is not a
\* function, and the accessor __proto__, whose value is an object: calling
\* it throws a TypeError.
ThrowsTypeError == {"__defineGetter__", "__defineSetter__", "__proto__"}

ObjectPrototype == ReturnsValue \cup LooksUpAccessor \cup ThrowsTypeError

\* What languageModels leaves behind when the call of line 168 throws.
TypeErrorThrown == [factory |-> [threw |-> "TypeError"], modelName |-> <<>>]

\* languageModels(modelId), lines 166-169: the first two parts of the split
\* id, the property of the map named by the first, called with the second.
\* An own key yields its factory's model; a member inherited from
\* Object.prototype is called just the same: its value, when not null (the
\* accessor function a lookup found included), is returned, and its
\* TypeError leaves the function; anything else is undefined and yields
\* null.
languageModels(map, modelId) ==
    LET parts == Split(modelId, "/")
        provider == parts[1]
        modelName == IF Len(parts) >= 2 THEN parts[2] ELSE Undefined
    IN IF Len(provider) = 1 /\ provider[1] \in DOMAIN map
       THEN [factory |-> map[provider[1]], modelName |-> modelName]
       ELSE IF Len(provider) = 1 /\ provider[1] \in ReturnsValue
       THEN [factory |-> [inherited |-> provider[1]], modelName |-> modelName]
       ELSE IF /\ Len(provider) = 1
               /\ provider[1] \in LooksUpAccessor
               /\ modelName \in Accessors
       THEN [factory |-> [inherited |-> provider[1]], modelName |-> modelName]
       ELSE IF Len(provider) = 1 /\ provider[1] \in ThrowsTypeError
       THEN TypeErrorThrown
       ELSE NoModel

\* list.keys, line 93: the keys that hold a value, in key order.
RECURSIVE ListFrom(_, _)
ListFrom(store, i) ==
    IF i > Len(AllKeys) THEN <<>>
    ELSE (IF store[AllKeys[i]] = Absent THEN <<>> ELSE <<AllKeys[i]>>)
         \o ListFrom(store, i + 1)

ListKeys(store) == ListFrom(store, 1)

\* ------------------------------------------------------------------- state
VARIABLES
    draft,                   \* which initializeProviders is loaded: "kv" | "static"
    providersMap,            \* line 67: provider id -> client factory
    providersInitializedAt,  \* line 68
    now,                     \* what Date.now() returns
    kv,                      \* PROVIDER_CONFIG: key -> stored value
    req,                     \* per request slot: where it is suspended and its locals
    completed,               \* history: the maps finished refreshes have built
    listingInForce,          \* history: the writes the store had seen when the
                             \* listing of the map in force was taken
    arrivals, ticks, writes  \* counters that bound a behaviour

vars == <<draft, providersMap, providersInitializedAt, now, kv, req,
          completed, listingInForce, arrivals, ticks, writes>>

\* pc: "idle"   no request in the slot
\*     "list"   suspended at await PROVIDER_CONFIG.list(), line 93
\*     "get"    suspended at await PROVIDER_CONFIG.get(keys[idx]), line 95
\*     "getUrl" suspended at await gateway.getUrl(...), line 105 (line 24 in
\*              the static draft)
\*     "assign" initializeProviders has returned ret; the middleware's
\*              await of line 146 has not resumed yet
\*     "auth"   suspended at await CLIENT_KEYS.get(key), line 158
\*     "body"   in the router of line 172, suspended at the read of the
\*              request body, which holds the model id
\*     "done"   the response is sent
\* hdr: the Authorization header, known once line 153 has read it;
\* caught: the error the catch of line 132 logged, "none" if none.
\* History of the request: awaited (it called initializeProviders and
\* awaits or awaited it), age (now - providersInitializedAt when it
\* arrived), reads (the values its refresh has fetched, one per key, and
\* whether getUrl failed for it), kvFailed (a list or get of its refresh
\* was rejected), inflight (the refreshes in flight when the router resolved
\* its model), listing (the writes the store had seen when its refresh
\* listed it; once the refresh has returned, those of the map it returned),
\* returned (the map its initializeProviders returned, once the middleware
\* has taken it at line 146).
IdleFrame ==
    [pc |-> "idle", hdr |-> NoHeader, keys |-> <<>>, idx |-> 0,
     providers |-> EmptyMap, cfg |-> NoCfg, ret |-> EmptyMap,
     caught |-> "none", result |-> NoResponse,
     awaited |-> FALSE, age |-> 0, reads |-> <<>>, kvFailed |-> FALSE,
     inflight |-> 0, listing |-> 0, returned |-> EmptyMap]

RefreshPcs == {"list", "get", "getUrl"}

\* The refreshes in flight: requests suspended inside initializeProviders.
InFlight == {r \in Reqs : req[r].pc \in RefreshPcs}

\* The slot an arriving request takes: the lowest one not in flight (0 if
\* every slot is taken).
FreeSlot ==
    LET free == {r \in Reqs : req[r].pc \in {"idle", "done"}}
    IN IF free = {} THEN 0 ELSE CHOOSE r \in free : \A q \in free : r <= q

InitCommon ==
    /\ providersMap = EmptyMap
    /\ providersInitializedAt = 0
    /\ now = StartTime
    /\ kv \in [Keys -> RawValues]
    /\ req = [r \in Reqs |-> IdleFrame]
    /\ completed = {}
    /\ listingInForce = 0
    /\ arrivals = 0
    /\ ticks = 0
    /\ writes = 0

Init == draft = "kv" /\ InitCommon

InitDrafts == draft \in {"kv", "static"} /\ InitCommon

\* ----------------------------------------------------------------- helpers
Globals == <<providersMap, providersInitializedAt, completed, listingInForce>>
Counters == <<arrivals, ticks, writes>>

SetFrame(r, f) == req' = [req EXCEPT ![r] = f]

\* The router's handler, lines 165-172, once it has the model id: the model
\* is looked up in the map as it is now.  A TypeError thrown by the lookup
\* leaves the handler.
Route(f, map, modelId, inflight) ==
    LET model == languageModels(map, modelId)
    IN [f EXCEPT !.pc = "done",
                 !.result = IF model = TypeErrorThrown
                            THEN Response("error", modelId, NoModel)
                            ELSE Response("routed", modelId, model),
                 !.inflight = inflight]

\* next() enters the router of line 172, which awaits the request body
\* before it can name a model.
EnterRouter(f) == [f EXCEPT !.pc = "body"]

\* authHeader.split(" ")[1], line 157.
KeyOf(hdr) == IF Len(hdr) >= 2 THEN hdr[2] ELSE "undefined"

\* The auth middleware up to its await, lines 152-158, for a request whose
\* Authorization header is h.
AuthMiddleware(f, h) ==
    IF h = NoHeader
    THEN [f EXCEPT !.pc = "done", !.hdr = h,
                   !.result = Response("403", <<>>, NoModel)]
    ELSE [f EXCEPT !.pc = "auth", !.hdr = h]

\* initializeProviders has returned and its value is consumed: its locals
\* are gone.
DropLocals(f) ==
    [f EXCEPT !.keys = <<>>, !.idx = 0, !.providers = EmptyMap,
              !.cfg = NoCfg, !.ret = EmptyMap, !.reads = <<>>,
              !.listing = 0]

\* A swap that copies the built entries into the map in force and keeps
\* the entries it already had.
PublishMerging(r, f, built) ==
    LET merged == [k \in DOMAIN providersMap \cup DOMAIN built |->
                      IF k \in DOMAIN built THEN built[k] ELSE providersMap[k]]
    IN /\ providersInitializedAt' = now
       /\ providersMap' = merged
       /\ completed' = completed \cup {merged}
       /\ listingInForce' = f.listing
       /\ SetFrame(r, [f EXCEPT !.pc = "assign", !.providers = built,
                                !.ret = merged])

\* Lines 130-131 and 135: the loop is over, the built map is swapped in and
\* returned.
Publish(r, f, built) ==
    /\ providersInitializedAt' = now
    /\ providersMap' = built
    /\ completed' = completed \cup {built}
    /\ listingInForce' = f.listing
    /\ SetFrame(r, [f EXCEPT !.pc = "assign", !.providers = built,
                             !.ret = built])

\* A refresh that swaps the map in after every entry instead of at the end.
LoopNextEager(r, f, built) ==
    IF f.idx < Len(f.keys)
    THEN /\ SetFrame(r, [f EXCEPT !.pc = "get", !.idx = f.idx + 1,
                                  !.providers = built])
         /\ providersMap' = built
         /\ UNCHANGED <<providersInitializedAt, completed, listingInForce>>
    ELSE Publish(r, f, built)

\* The end of one pass of the for loop of line 94 (a continue, or line 128
\* done): the next key's get is awaited, or the loop is over.
LoopNext(r, f, built) ==
    IF f.idx < Len(f.keys)
    THEN /\ SetFrame(r, [f EXCEPT !.pc = "get", !.idx = f.idx + 1,
                                  !.providers = built])
         /\ UNCHANGED Globals
    ELSE Publish(r, f, built)

\* A catch that starts the refresh over instead of returning.
CatchRetrying(r, f, error) ==
    /\ SetFrame(r, [f EXCEPT !.pc = "list", !.caught = error])
    /\ UNCHANGED Globals

\* The catch of lines 132-135: the error is logged and the current
\* providersMap is returned.
Catch(r, f, error) ==
    /\ SetFrame(r, [f EXCEPT !.pc = "assign", !.caught = error,
                             !.ret = providersMap,
                             !.listing = listingInForce])
    /\ UNCHANGED Globals

\* if (!raw) continue, line 96.
OnNoValue(r, f) == LoopNext(r, f, f.providers)

\* A parse error that is not caught per entry reaches the outer catch.
OnInvalidJsonRethrown(r, f) == Catch(r, f, "SyntaxError")

\* The inner catch of lines 100-103: the bad entry is logged and skipped.
OnInvalidJson(r, f) == LoopNext(r, f, f.providers)

\* cfg.gatewayProviderPath with cfg null, line 105: a TypeError, thrown
\* inside the outer try.
OnNullConfig(r, f) == Catch(r, f, "TypeError")

\* A rejected gateway.getUrl, line 105: thrown inside the outer try.
OnEndpointError(r, f) ==
    Catch(r, [f EXCEPT !.reads[Len(f.reads)].endpointFailed = TRUE],
          "EndpointError")

\* The throw of lines 107-111, inside the outer try.
OnMissingSecret(r, f) == Catch(r, f, "MissingSecret")

\* The default branch of the switch, lines 124-126: warn and continue.
OnUnsupported(r, f) == LoopNext(r, f, f.providers)

\* A google case that builds every factory with env.GOOGLE_API_KEY, as the
\* static configuration of line 19 does.
OnGoogleStaticKey(r, f, url) ==
    LoopNext(r, f,
             SetEntry(f.providers, f.keys[f.idx],
                      createGoogleGenerativeAI(
                          url, Env.GOOGLE_API_KEY, Env.AI_GATEWAY_TOKEN)))

\* case "google", lines 115-123 and 128.
OnGoogle(r, f, url) ==
    LoopNext(r, f,
             SetEntry(f.providers, f.keys[f.idx],
                      createGoogleGenerativeAI(
                          url, Env[f.cfg.apiKeySecretName],
                          Env.AI_GATEWAY_TOKEN)))

\* A rejected PROVIDER_CONFIG.list or get, lines 93 and 95: thrown inside
\* the outer try.
OnConfigSourceError(r, f) == Catch(r, f, "ConfigSourceError")

\* ----------------------------------------------------------------- actions
\* Time passes.
Tick(d) ==
    /\ ticks < MaxTicks
    /\ now' = now + d
    /\ ticks' = ticks + 1
    /\ UNCHANGED <<draft, kv, req, Globals, arrivals, writes>>

\* An operator writes or deletes an entry of PROVIDER_CONFIG.
KvPut(k, v) ==
    /\ writes < MaxWrites
    /\ kv[k] # v
    /\ kv' = [kv EXCEPT ![k] = v]
    /\ writes' = writes + 1
    /\ UNCHANGED <<draft, now, req, Globals, arrivals, ticks>>

\* A request arrives: the freshness middleware, lines 143-148, up to its
\* first await.  Stale: initializeProviders runs to await list(), lines
\* 90-93.  Fresh: next() runs the auth middleware.
Request(r) ==
    /\ draft = "kv"
    /\ arrivals < MaxArrivals
    /\ r = FreeSlot
    /\ arrivals' = arrivals + 1
    /\ LET f == [IdleFrame EXCEPT !.age = now - providersInitializedAt]
       IN IF IsStale(now, providersInitializedAt)
          THEN SetFrame(r, [f EXCEPT !.pc = "list", !.awaited = TRUE])
          ELSE \E h \in Headers : SetFrame(r, AuthMiddleware(f, h))
    /\ UNCHANGED <<draft, now, kv, Globals, ticks, writes>>

\* await PROVIDER_CONFIG.list() settles, line 93.
ListSettles(r) ==
    /\ draft = "kv"
    /\ req[r].pc = "list"
    /\ \E ok \in BOOLEAN :
          IF ok
          THEN LoopNext(r, [req[r] EXCEPT !.keys = ListKeys(kv), !.idx = 0,
                                          !.listing = writes],
                        EmptyMap)
          ELSE OnConfigSourceError(r, [req[r] EXCEPT !.kvFailed = TRUE])
    /\ UNCHANGED <<draft, now, kv, Counters>>

\* await PROVIDER_CONFIG.get(provider) settles, lines 95-105: the value is
\* skipped, or parsed and gateway.getUrl called.
GetSettles(r) ==
    /\ draft = "kv"
    /\ req[r].pc = "get"
    /\ \E ok \in BOOLEAN :
          LET raw == kv[req[r].keys[req[r].idx]]
              f == [req[r] EXCEPT
                      !.reads = Append(@, [raw |-> raw,
                                           endpointFailed |-> FALSE])]
              parsed == JSONParse(raw)
          IN IF ~ok
             THEN OnConfigSourceError(r, [req[r] EXCEPT !.kvFailed = TRUE])
             ELSE IF raw = Absent THEN OnNoValue(r, f)
             ELSE IF parsed.threw THEN OnInvalidJson(r, f)
             ELSE IF parsed.value.isNull THEN OnNullConfig(r, f)
             ELSE /\ SetFrame(r, [f EXCEPT !.pc = "getUrl",
                                           !.cfg = parsed.value])
                  /\ UNCHANGED Globals
    /\ UNCHANGED <<draft, now, kv, Counters>>

\* await gateway.getUrl(cfg.gatewayProviderPath) settles, lines 105-129.
GetUrlSettles(r) ==
    /\ draft = "kv"
    /\ req[r].pc = "getUrl"
    /\ \E ok \in BOOLEAN :
          LET f == req[r]
              cfg == f.cfg
              url == getUrl(cfg.gatewayProviderPath)
          IN IF ~ok THEN OnEndpointError(r, f)
             ELSE IF ~hasSecret(Env, cfg.apiKeySecretName)
             THEN OnMissingSecret(r, f)
             ELSE IF cfg.provider = "google" THEN OnGoogle(r, f, url)
             ELSE OnUnsupported(r, f)
    /\ UNCHANGED <<draft, now, kv, Counters>>

\* The middleware's await of line 146 resumes: providersMap is assigned what
\* initializeProviders returned, and next() runs the auth middleware.
MiddlewareResumes(r) ==
    /\ draft = "kv"
    /\ req[r].pc = "assign"
    /\ providersMap' = req[r].ret
    /\ listingInForce' = req[r].listing
    /\ \E h \in Headers :
          SetFrame(r, AuthMiddleware([DropLocals(req[r]) EXCEPT
                                         !.returned = req[r].ret], h))
    /\ UNCHANGED <<draft, now, kv, providersInitializedAt, completed, Counters>>

\* await CLIENT_KEYS.get(key) settles, lines 158-162; a valid key goes on to
\* the router, which awaits the body.  A get that throws leaves the
\* middleware as an error.
AuthSettles(r) ==
    /\ draft = "kv"
    /\ req[r].pc = "auth"
    /\ \E ok \in BOOLEAN :
          IF ~ok
          THEN SetFrame(r, [req[r] EXCEPT !.pc = "done",
                                          !.result = Response("error", <<>>, NoModel)])
          ELSE IF KeyOf(req[r].hdr) \notin ClientKeys
          THEN SetFrame(r, [req[r] EXCEPT !.pc = "done",
                                          !.result = Response("403", <<>>, NoModel)])
          ELSE SetFrame(r, EnterRouter(req[r]))
    /\ UNCHANGED <<draft, now, kv, Globals, Counters>>

\* The read of the request body settles: the router calls
\* languageModels(modelId), lines 166-169, with the id the body names.
BodySettles(r) ==
    /\ draft = "kv"
    /\ req[r].pc = "body"
    /\ \E id \in ModelIds :
          SetFrame(r, Route(req[r], providersMap, id, Cardinality(InFlight)))
    /\ UNCHANGED <<draft, now, kv, Globals, Counters>>

\* ------------------------------------------------------ the static draft
\* A request arrives at the middleware of lines 41-47.  Stale: the static
\* initializeProviders runs to await gateway.getUrl, lines 16-24.  Fresh:
\* next() is the router, which awaits the body.
StaticRequest(r) ==
    /\ draft = "static"
    /\ arrivals < MaxArrivals
    /\ r = FreeSlot
    /\ arrivals' = arrivals + 1
    /\ LET f == [IdleFrame EXCEPT !.age = now - providersInitializedAt]
       IN IF IsStale(now, providersInitializedAt)
          THEN SetFrame(r, [f EXCEPT !.pc = "getUrl", !.awaited = TRUE])
          ELSE SetFrame(r, EnterRouter(f))
    /\ UNCHANGED <<draft, now, kv, Globals, ticks, writes>>

\* await gateway.getUrl("google-ai-studio") settles, lines 24-33: the entry
\* is written into the published map itself.  A rejection is not caught.
StaticGetUrlSettles(r) ==
    /\ draft = "static"
    /\ req[r].pc = "getUrl"
    /\ \E ok \in BOOLEAN :
          IF ok
          THEN LET written ==
                     SetEntry(providersMap, "google",
                              createGoogleGenerativeAI(
                                  getUrl("google-ai-studio"),
                                  Env.GOOGLE_API_KEY, Env.AI_GATEWAY_TOKEN))
               IN /\ providersMap' = written
                  /\ providersInitializedAt' = now
                  /\ completed' = completed \cup {written}
                  /\ UNCHANGED listingInForce
                  /\ SetFrame(r, [req[r] EXCEPT !.pc = "assign",
                                                !.ret = written])
          ELSE /\ SetFrame(r, [req[r] EXCEPT
                                  !.pc = "done",
                                  !.caught = "EndpointError",
                                  !.result = Response("error", <<>>, NoModel)])
               /\ UNCHANGED Globals
    /\ UNCHANGED <<draft, now, kv, Counters>>

\* The middleware's await of line 44 resumes: providersMap is assigned the
\* object it already names (the static draft never makes another), and
\* next() is the router, which awaits the body.
StaticMiddlewareResumes(r) ==
    /\ draft = "static"
    /\ req[r].pc = "assign"
    /\ SetFrame(r, EnterRouter([DropLocals(req[r]) EXCEPT
                                   !.returned = req[r].ret]))
    /\ UNCHANGED <<draft, now, kv, Globals, Counters>>

\* The read of the request body settles: the router calls
\* languageModels(modelId), lines 50-53, with the id the body names.
StaticBodySettles(r) ==
    /\ draft = "static"
    /\ req[r].pc = "body"
    /\ \E id \in ModelIds :
          SetFrame(r, Route(req[r], providersMap, id, Cardinality(InFlight)))
    /\ UNCHANGED <<draft, now, kv, Globals, Counters>>

\* ---------------------------------------------------------- specifications
Environment ==
    \/ \E d \in TickSizes : Tick(d)
    \/ \E k \in Keys, v \in Written : KvPut(k, v)

NextKv ==
    \/ \E r \in Reqs : Request(r)
    \/ \E r \in Reqs : ListSettles(r)
    \/ \E r \in Reqs : GetSettles(r)
    \/ \E r \in Reqs : GetUrlSettles(r)
    \/ \E r \in Reqs : MiddlewareResumes(r)
    \/ \E r \in Reqs : AuthSettles(r)
    \/ \E r \in Reqs : BodySettles(r)

NextStatic ==
    \/ \E r \in Reqs : StaticRequest(r)
    \/ \E r \in Reqs : StaticGetUrlSettles(r)
    \/ \E r \in Reqs : StaticMiddlewareResumes(r)
    \/ \E r \in Reqs : StaticBodySettles(r)

Next == Environment \/ NextKv

NextDrafts == Environment \/ NextKv \/ NextStatic

\* The KV-backed program.
Spec == Init /\ [][Next]_vars

\* Either draft of initializeProviders.
SpecDrafts == InitDrafts /\ [][NextDrafts]_vars

\* --------------------------------------------------- one request at a time
\* A request that arrives when no other is in progress.
SequentialRequest(r) ==
    /\ \A q \in Reqs : req[q].pc \in {"idle", "done"}
    /\ Request(r)

\* The store holds google descriptors with different secrets and paths.
InitSequential ==
    /\ draft = "kv"
    /\ providersMap = EmptyMap
    /\ providersInitializedAt = 0
    /\ now = StartTime
    /\ kv \in [Keys -> RotatedValues]
    /\ req = [r \in Reqs |-> IdleFrame]
    /\ completed = {}
    /\ listingInForce = 0
    /\ arrivals = 0
    /\ ticks = 0
    /\ writes = 0

NextSequential ==
    \/ Environment
    \/ \E r \in Reqs : SequentialRequest(r)
    \/ \E r \in Reqs : ListSettles(r)
    \/ \E r \in Reqs : GetSettles(r)
    \/ \E r \in Reqs : GetUrlSettles(r)
    \/ \E r \in Reqs : MiddlewareResumes(r)
    \/ \E r \in Reqs : AuthSettles(r)
    \/ \E r \in Reqs : BodySettles(r)

\* The KV-backed program serving its requests one after the other, over a
\* store whose descriptors differ from one another.
SpecSequential == InitSequential /\ [][NextSequential]_vars

\* ------------------------------------------------------- the resolver alone
\* The factory the refresh builds for the README's google descriptor.
GoogleFactory ==
    createGoogleGenerativeAI(getUrl(PathOf("google")), Env.GOOGLE_API_KEY,
                             Env.AI_GATEWAY_TOKEN)

\* The snapshots a refresh can have published: any set of keys, each with
\* its factory.
Snapshots == {[k \in ks |-> GoogleFactory] : ks \in SUBSET Keys}

\* The router calls languageModels(modelId), lines 165-172, for a request
\* that has passed both middlewares against a fresh snapshot.
Resolve(r, id) ==
    /\ arrivals < MaxArrivals
    /\ r = FreeSlot
    /\ arrivals' = arrivals + 1
    /\ SetFrame(r, Route(IdleFrame, providersMap, id, Cardinality(InFlight)))
    /\ UNCHANGED <<draft, now, kv, Globals, ticks, writes>>

\* A worker whose last refresh has just published one of the snapshots.
InitResolve ==
    /\ draft = "kv"
    /\ providersMap \in Snapshots
    /\ providersInitializedAt = StartTime
    /\ now = StartTime
    /\ kv = [k \in Keys |->
                IF k \in DOMAIN providersMap
                THEN Raw("object", "google", "GOOGLE_API_KEY", PathOf("google"))
                ELSE Absent]
    /\ req = [r \in Reqs |-> IdleFrame]
    /\ completed = {providersMap}
    /\ listingInForce = 0
    /\ arrivals = 0
    /\ ticks = 0
    /\ writes = 0

NextResolve == \E r \in Reqs, id \in ResolveIds : Resolve(r, id)

\* The resolver called on every kind of id against every snapshot.
SpecResolve == InitResolve /\ [][NextResolve]_vars

\* ------------------------------------------------------------------ claims
\* What the registry's contract expects of one fetched entry: a JSON object
\* of a supported kind whose secret is bound and whose endpoint resolved
\* yields a factory; every other entry is skipped.
IsInvalidJson(e) == e.raw.json = "invalid"
IsNullJson(e) == e.raw.json = "null"
IsMissingSecret(e) ==
    e.raw.json = "object" /\ ~hasSecret(Env, e.raw.apiKeySecretName)
IsUnsupported(e) == e.raw.json = "object" /\ e.raw.provider # "google"
IsEndpointFailure(e) == e.endpointFailed
Buildable(e) ==
    /\ e.raw.json = "object"
    /\ e.raw.provider = "google"
    /\ hasSecret(Env, e.raw.apiKeySecretName)
    /\ ~e.endpointFailed

ExpectedFactory(raw) ==
    createGoogleGenerativeAI(getUrl(raw.gatewayProviderPath),
                             Env[raw.apiKeySecretName], Env.AI_GATEWAY_TOKEN)

\* The snapshot of the buildable entries among those a refresh fetched.
ExpectedSnapshot(f) ==
    LET good == {i \in 1 .. Len(f.reads) : Buildable(f.reads[i])}
    IN [k \in {f.keys[i] : i \in good} |->
          ExpectedFactory(f.reads[CHOOSE i \in good : f.keys[i] = k].raw)]

\* The refresh of frame f went through every listed key and published the
\* snapshot of the buildable entries.
Completed(f) ==
    /\ f.caught = "none"
    /\ Len(f.reads) = Len(f.keys)
    /\ f.ret = ExpectedSnapshot(f)
    /\ f.ret \in completed

\* A refresh of the KV-backed draft has returned and its result is not yet
\* consumed.
RefreshReturned(r) == draft = "kv" /\ req[r].pc = "assign"

\* A returned refresh whose Configuration Source stayed reachable and whose
\* fetched entries are all either Bad or buildable, one at least Bad, has
\* completed.
Bad(kind, e) ==
    CASE kind = "secret" -> IsMissingSecret(e)
      [] kind = "endpoint" -> IsEndpointFailure(e)
      [] kind = "null" -> IsNullJson(e)
      [] kind = "unsupported" -> IsUnsupported(e)

Isolated(kind) ==
    \A r \in Reqs :
        LET f == req[r]
            all == 1 .. Len(f.reads)
        IN (/\ RefreshReturned(r)
            /\ ~f.kvFailed
            /\ \E i \in all : Bad(kind, f.reads[i])
            /\ \A i \in all : Bad(kind, f.reads[i]) \/ Buildable(f.reads[i]))
           => Completed(f)

\* C1: at most one refresh is in flight at any instant.
C1_SingleFlight == Cardinality(InFlight) <= 1

\* C2: a request that arrives while a refresh is in flight is not made to
\* wait for a refresh: it does not call initializeProviders and goes
\* straight on, to be answered from the snapshot as it is.
C2_NeverDelayed ==
    [][\A r \in Reqs :
          (/\ InFlight # {}
           /\ req[r].pc \in {"idle", "done"}
           /\ req'[r] # req[r])
             => /\ ~req'[r].awaited
                /\ req'[r].pc \notin RefreshPcs]_vars

\* C3: the map readers see is the initial empty snapshot or the complete
\* result of a finished refresh, never the partial map of a refresh that is
\* suspended between two entries.
C3_AtomicSnapshot == providersMap \in completed \cup {EmptyMap}

\* C3 witness: a refresh is suspended between two entries holding a
\* non-empty partial map, and the published map is another one.
C3_Witness ==
    \E r \in Reqs :
        /\ req[r].pc \in {"get", "getUrl"}
        /\ req[r].idx >= 2
        /\ req[r].providers # EmptyMap
        /\ providersMap # req[r].providers

\* C4: an entry whose secret is not bound is skipped and the refresh
\* completes with the factories of the other entries.
C4_MissingSecretSkipped == Isolated("secret")

\* C5: an entry whose endpoint resolution fails is skipped and the refresh
\* completes with the factories of the other entries.
C5_EndpointFailureSkipped == Isolated("endpoint")

\* C6: a refresh whose entries are invalid JSON or valid and supported
\* finishes without an error and publishes exactly the factories of the
\* valid entries.
C6_InvalidJsonIsolated ==
    \A r \in Reqs :
        LET f == req[r]
            all == 1 .. Len(f.reads)
        IN (/\ RefreshReturned(r)
            /\ ~f.kvFailed
            /\ \A i \in all : IsInvalidJson(f.reads[i]) \/ Buildable(f.reads[i]))
           => Completed(f)

\* C6 witness: a refresh that fetched an invalid entry and a valid one has
\* returned a snapshot holding the valid one.
C6_Witness ==
    \E r \in Reqs :
        /\ RefreshReturned(r)
        /\ \E i, j \in 1 .. Len(req[r].reads) :
              /\ IsInvalidJson(req[r].reads[i])
              /\ Buildable(req[r].reads[j])
              /\ req[r].keys[j] \in DOMAIN req[r].ret
              /\ req[r].keys[i] \notin DOMAIN req[r].ret
        /\ req[r].caught = "none"

\* C7: an entry that is JSON but no descriptor (the text null) is skipped
\* and the refresh completes with the factories of the other entries.
C7_NonDescriptorSkipped == Isolated("null")

\* C8: an entry of an unsupported kind is skipped and the refresh completes
\* with the factories of the other entries.
C8_UnsupportedSkipped == Isolated("unsupported")

\* C9: a refresh that the Configuration Source fails (list or get rejected)
\* leaves providersMap and providersInitializedAt as they were; no later
\* step of its request changes either of them; and when the request then
\* has its model resolved, a provider of the snapshot the failed refresh
\* retained resolves to the model of the factory it had there.
C9_StaleFallback ==
    [][\A r \in Reqs :
          /\ (~req[r].kvFailed /\ req'[r].kvFailed)
                => /\ providersMap' = providersMap
                   /\ providersInitializedAt' = providersInitializedAt
                   /\ req'[r].pc = "assign"
                   /\ req'[r].ret = providersMap
          /\ (req[r].kvFailed /\ req'[r].kvFailed /\ req'[r] # req[r])
                => /\ providersInitializedAt' = providersInitializedAt
                   /\ providersMap' = providersMap
          /\ (/\ req[r].kvFailed
              /\ req[r].pc = "body"
              /\ req'[r].pc = "done"
              /\ req'[r].result.id[1] \in DOMAIN req[r].returned)
                => /\ req'[r].result.status = "routed"
                   /\ req'[r].result.model # NoModel
                   /\ req'[r].result.model.factory
                        = req[r].returned[req'[r].result.id[1]]]_vars

\* C10: a request without an Authorization header or with a key that is not
\* allow-listed has no refresh started on its behalf and no model resolved.
C10_RejectedBeforeRegistry ==
    \A r \in Reqs :
        (/\ req[r].pc \in {"auth", "body", "done"}
         /\ KeyOf(req[r].hdr) \notin ClientKeys)
            => (~req[r].awaited /\ req[r].result.model = NoModel)

\* C11: the key-existence check fails closed: a request that carried a key
\* ends rejected (403) or routed, also when CLIENT_KEYS.get raises; no error
\* escapes the check.
C11_AuthFailsClosed ==
    \A r \in Reqs :
        (draft = "kv" /\ req[r].pc = "done" /\ req[r].hdr # NoHeader)
            => req[r].result.status \in {"403", "routed"}

\* C12: no failure inside a refresh leaves the refresh or the freshness
\* middleware as an exception: a request that awaited a refresh and ended
\* with an error got past the freshness middleware first (it read its
\* Authorization header), so the error is not the refresh's.
C12_NoRefreshErrorEscapes ==
    \A r \in Reqs :
        (req[r].pc = "done" /\ req[r].awaited /\ req[r].result.status = "error")
            => req[r].hdr # NoHeader

\* The text of an id after its first "/" (empty when it has none), and
\* whether it has one.
HasSeparator(id) == \E i \in 1 .. Len(id) : id[i] = "/"

RECURSIVE AfterFirstSeparator(_)
AfterFirstSeparator(id) ==
    IF id = <<>> THEN <<>>
    ELSE IF Head(id) = "/" THEN Tail(id)
    ELSE AfterFirstSeparator(Tail(id))

\* The text of an id before its first "/".
RECURSIVE BeforeFirstSeparator(_)
BeforeFirstSeparator(id) ==
    IF id = <<>> \/ Head(id) = "/" THEN <<>>
    ELSE <<Head(id)>> \o BeforeFirstSeparator(Tail(id))

\* The request of slot r had its model resolved.
Resolved(r) == req[r].pc = "done" /\ req[r].result.status = "routed"

\* C13: an id p/m with p in the snapshot and m non-empty resolves to the
\* factory of p called with the whole of m, the text after the first "/".
C13_SplitOnFirstSeparator ==
    \A r \in Reqs :
        LET id == req[r].result.id
            p == BeforeFirstSeparator(id)
            m == AfterFirstSeparator(id)
        IN (/\ Resolved(r)
            /\ HasSeparator(id)
            /\ Len(p) = 1 /\ p[1] \in DOMAIN providersMap
            /\ m # <<>>)
           => req[r].result.model
                = [factory |-> providersMap[p[1]], modelName |-> m]

\* C14: an id with no "/", with nothing before it or with nothing after it
\* is refused and no factory is called for it: the resolver yields no model.
C14_MalformedRefused ==
    \A r \in Reqs :
        LET id == req[r].result.id
        IN (/\ Resolved(r)
            /\ \/ ~HasSeparator(id)
               \/ BeforeFirstSeparator(id) = <<>>
               \/ AfterFirstSeparator(id) = <<>>)
           => req[r].result.model = NoModel

\* C15: an id p/m whose p is not a key of the snapshot resolves to no model,
\* whatever the text p is: the resolver returns, and returns null.
C15_UnknownProviderNotFound ==
    \A r \in Reqs :
        LET id == req[r].result.id
            p == BeforeFirstSeparator(id)
        IN (/\ req[r].pc = "done"
            /\ HasSeparator(id)
            /\ ~(Len(p) = 1 /\ p[1] \in DOMAIN providersMap))
           => (Resolved(r) /\ req[r].result.model = NoModel)

\* C16: a request starts a refresh exactly when the age it finds is at
\* least the TTL; at an age equal to the TTL it does.
C16_RefreshFromTtl ==
    \A r \in Reqs :
        req[r].pc # "idle"
            => (req[r].awaited <=> req[r].age >= CACHE_TTL_MS)

\* C17: no step of a request that found the snapshot younger than the TTL
\* reads the Configuration Source or changes providersMap or
\* providersInitializedAt, however many such requests there are.
C17_FreshIsNoOp ==
    [][\A r \in Reqs :
          (/\ req'[r] # req[r]
           /\ req'[r].pc # "idle"
           /\ req'[r].age < CACHE_TTL_MS)
             => /\ providersMap' = providersMap
                /\ providersInitializedAt' = providersInitializedAt
                /\ req'[r].pc \notin RefreshPcs \cup {"assign"}
                /\ req'[r].reads = <<>>
                /\ ~req'[r].awaited]_vars

\* C17 witness: two requests that found the populated snapshot fresh have
\* both been resolved without a refresh.
C17_Witness ==
    /\ providersMap # EmptyMap
    /\ \A r \in Reqs :
          /\ Resolved(r)
          /\ req[r].age < CACHE_TTL_MS
          /\ ~req[r].awaited

\* C18: providersMap changes only in the step in which a refresh ends
\* without an error, and then to the map that refresh constructed in its
\* own local; no other step (a failed refresh, the middleware, a write into
\* the published map) changes what it holds.
C18_PointerWrittenOncePerSuccess ==
    [][providersMap' # providersMap
          => \E r \in Reqs :
                /\ req[r].pc \in RefreshPcs
                /\ req'[r].pc = "assign"
                /\ req'[r].caught = "none"
                /\ providersMap' = req'[r].providers]_vars

\* C19: a refresh that fails leaves providersMap and providersInitializedAt
\* in force and is not tried again by itself; a refresh starts only as the
\* step of an arriving request that finds the age above the TTL.
C19_NoRetryButNextRequest ==
    [][\A r \in Reqs :
          /\ req'[r].caught # "none" => req'[r].pc \notin RefreshPcs
          /\ (req[r].caught = "none" /\ req'[r].caught # "none")
                => /\ providersMap' = providersMap
                   /\ providersInitializedAt' = providersInitializedAt
          /\ (req[r].pc \notin RefreshPcs /\ req'[r].pc \in RefreshPcs)
                => /\ req[r].pc \in {"idle", "done"}
                   /\ arrivals' = arrivals + 1
                   /\ now - providersInitializedAt > CACHE_TTL_MS]_vars

\* C19 witness: the first request's refresh failed (nothing was ever
\* published and its slot is free again) and the next request, arriving
\* after it, has started a refresh of its own.
C19_Witness ==
    /\ draft = "kv"
    /\ arrivals = 2
    /\ providersInitializedAt = 0
    /\ req[1].pc \in RefreshPcs
    /\ \A r \in Reqs \ {1} : req[r].pc = "idle"

\* C20: in the map a refresh returns without an error, the factory under a
\* key is the one built from the descriptor that refresh fetched under that
\* key: the endpoint resolved from its path with /v1beta appended, the
\* secret its apiKeySecretName names, and the gateway token as Bearer
\* authorization.
C20_FactoryFromOwnDescriptor ==
    \A r \in Reqs :
        (RefreshReturned(r) /\ req[r].caught = "none")
            => /\ req[r].ret \in completed
               /\ \A i \in 1 .. Len(req[r].reads) :
                     LET k == req[r].keys[i]
                         raw == req[r].reads[i].raw
                     IN k \in DOMAIN req[r].ret
                          => req[r].ret[k]
                               = [baseURL |-> getUrl(raw.gatewayProviderPath)
                                                \o <<"/v1beta">>,
                                  apiKey |-> Env[raw.apiKeySecretName],
                                  authorization |->
                                      <<"Bearer ", Env.AI_GATEWAY_TOKEN>>]

\* C20 witness: a refresh has returned a map whose two factories differ,
\* after an earlier refresh had built another factory for one of its keys.
C20_Witness ==
    \E r \in Reqs :
        /\ RefreshReturned(r)
        /\ req[r].caught = "none"
        /\ DOMAIN req[r].ret = Keys
        /\ \E j, k \in Keys : req[r].ret[j] # req[r].ret[k]
        /\ \E m \in completed :
              \E k \in Keys \cap DOMAIN m : m[k] # req[r].ret[k]

\* C21: the snapshot in force never goes backwards: providersInitializedAt
\* never decreases, and no step replaces the map in force by a different
\* map that comes from a listing taken earlier than the listing of the map
\* it replaces.
C21_NeverGoesBackwards ==
    [][/\ providersInitializedAt' >= providersInitializedAt
       /\ providersMap' # providersMap
             => listingInForce' >= listingInForce]_vars

\* C22: the step in which a refresh ends without an error leaves in force a
\* map whose keys are among the keys that refresh listed and found a value
\* for; a provider whose entry is gone from the store is then not in the
\* map and the resolver yields no model for it.
C22_WholesaleReplacement ==
    [][\A r \in Reqs :
          (/\ draft = "kv"
           /\ req[r].pc \in RefreshPcs
           /\ req'[r].pc = "assign"
           /\ req'[r].caught = "none")
             => LET f == req'[r]
                    present == {f.keys[i] :
                                  i \in {j \in 1 .. Len(f.reads) :
                                            f.reads[j].raw # Absent}}
                IN /\ DOMAIN providersMap' \subseteq present
                   /\ \A k \in Keys \ present :
                         languageModels(providersMap', <<k, "/", "gemini">>)
                            = NoModel]_vars

\* C22 witness: a refresh has just ended without an error and left in
\* force a map without a provider that an earlier snapshot held and whose
\* entry is gone from the store.
C22_Witness ==
    \E r \in Reqs :
        /\ RefreshReturned(r)
        /\ req[r].caught = "none"
        /\ providersMap = req[r].ret
        /\ \E k \in Keys :
              /\ kv[k] = Absent
              /\ k \notin DOMAIN providersMap
              /\ \E m \in completed : k \in DOMAIN m

\* The order of a stale request's steps (the first half of C23): a request
\* that found the snapshot stale (the first one after cold start included)
\* gets past the freshness middleware only in the step that
\* resumes it after its own refresh has returned; when that refresh ended
\* without an error, this step leaves in force the map the refresh built;
\* and its model is resolved only later, once the authentication and then
\* the read of the request body have settled, from the map then in force.
C23_ResolvesAfterOwnRefresh ==
    [][\A r \in Reqs :
          /\ (/\ req'[r] # req[r]
              /\ req'[r].age > CACHE_TTL_MS
              /\ req'[r].pc \in {"auth", "body", "done"}
              /\ req[r].pc \notin {"auth", "body"})
                => /\ req[r].pc = "assign"
                   /\ req[r].awaited
                   /\ req[r].caught = "none"
                         => /\ providersMap' = req[r].ret
                            /\ req[r].ret \in completed
          /\ (/\ req'[r] # req[r]
              /\ req'[r].age > CACHE_TTL_MS
              /\ req'[r].pc = "done"
              /\ req'[r].result.status = "routed")
                => /\ req[r].pc = "body"
                   /\ req'[r].result.model
                        = languageModels(providersMap, req'[r].result.id)
          /\ (/\ req'[r].age > CACHE_TTL_MS
              /\ req'[r].pc = "body"
              /\ req[r].pc # "body")
                => req[r].pc = "auth"]_vars

\* C23: a request that found the snapshot stale has its model resolved only
\* after its own refresh has returned (C23_ResolvesAfterOwnRefresh), and at
\* cold start, the clock still reading the time of the first request and no
\* refresh having failed, a request whose refresh populated the snapshot
\* with a provider and which names that provider is resolved to a model:
\* it is not answered from an empty snapshot.
C23_ResolvesAgainstPopulated ==
    /\ C23_ResolvesAfterOwnRefresh
    /\ [][\A r \in Reqs :
             (/\ now = StartTime
              /\ req[r].pc = "body"
              /\ req'[r].pc = "done"
              /\ req[r].awaited
              /\ \A q \in Reqs : req[q].caught = "none"
              /\ req'[r].result.id[1] \in DOMAIN req[r].returned)
                => /\ req'[r].result.status = "routed"
                   /\ req'[r].result.model # NoModel]_vars

\* --------------------------------------------- requests that keep arriving
\* A request arrives at the freshness middleware, lines 143-148, while no
\* other is in progress.  Arrivals are not counted: they never run out.
Arrival(r) ==
    /\ draft = "kv"
    /\ \A q \in Reqs : req[q].pc \in {"idle", "done"}
    /\ r = FreeSlot
    /\ LET f == [IdleFrame EXCEPT !.age = now - providersInitializedAt]
       IN IF IsStale(now, providersInitializedAt)
          THEN SetFrame(r, [f EXCEPT !.pc = "list", !.awaited = TRUE])
          ELSE \E h \in Headers : SetFrame(r, AuthMiddleware(f, h))
    /\ UNCHANGED <<draft, now, kv, Globals, Counters>>

\* The Configuration Source is reachable: PROVIDER_CONFIG.list() resolves,
\* line 93.
ListReturns(r) == ListSettles(r) /\ ~req'[r].kvFailed

\* PROVIDER_CONFIG.get(provider) resolves, line 95.
GetReturns(r) == GetSettles(r) /\ ~req'[r].kvFailed

\* The endpoint is resolvable: gateway.getUrl resolves, line 105.
GetUrlReturns(r) == GetUrlSettles(r) /\ req'[r].caught # "EndpointError"

NextLive ==
    \/ Environment
    \/ \E r \in Reqs : Arrival(r)
    \/ \E r \in Reqs : ListReturns(r)
    \/ \E r \in Reqs : GetReturns(r)
    \/ \E r \in Reqs : GetUrlReturns(r)
    \/ \E r \in Reqs : MiddlewareResumes(r)
    \/ \E r \in Reqs : AuthSettles(r)
    \/ \E r \in Reqs : BodySettles(r)

\* What the runtime's scheduling gives: a pending await settles and its
\* continuation runs, and a request arrives whenever none is in progress.
\* Nothing is asked of the clock or of the operator.
Fairness ==
    /\ WF_vars(\E r \in Reqs : Arrival(r))
    /\ WF_vars(\E r \in Reqs : ListReturns(r))
    /\ WF_vars(\E r \in Reqs : GetReturns(r))
    /\ WF_vars(\E r \in Reqs : GetUrlReturns(r))
    /\ WF_vars(\E r \in Reqs : MiddlewareResumes(r))
    /\ WF_vars(\E r \in Reqs : AuthSettles(r))
    /\ WF_vars(\E r \in Reqs : BodySettles(r))

\* The KV-backed program under requests that keep arriving, one after the
\* other, with the Configuration Source and the gateway's endpoints
\* reachable.
SpecLive == Init /\ [][NextLive]_vars /\ Fairness

\* The entry under key k is valid and supported, and its secret is bound.
ValidEntry(k) ==
    /\ kv[k].json = "object"
    /\ kv[k].provider = "google"
    /\ hasSecret(Env, kv[k].apiKeySecretName)

\* A request has found the snapshot stale and starts a refresh.
RefreshStarts == \E r \in Reqs : req[r].pc = "list"

\* The provider of key k is in the current snapshot and resolvable.
InSnapshot(k) ==
    /\ k \in DOMAIN providersMap
    /\ languageModels(providersMap, <<k, "/", "gemini">>) # NoModel

\* No entry of the store makes a refresh end in the outer catch.
NoAbortingEntry ==
    \A j \in Keys :
       /\ kv[j].json # "null"
       /\ kv[j].json = "object" => hasSecret(Env, kv[j].apiKeySecretName)

\* C24: if a valid, supported entry with a bound secret stays in the store
\* from some point on, the store and the endpoints stay reachable and
\* requests keep finding the snapshot stale, then eventually its provider is
\* in the current snapshot and resolvable, whatever the other entries are.
C24_ChangesTakeEffect ==
    \A k \in Keys :
       (<>[]ValidEntry(k) /\ []<>RefreshStarts) => <>InSnapshot(k)

\* C24, for stores none of whose entries ends a refresh in the outer catch
\* (a missing secret, a JSON null): there the change does take effect.
C24_TakesEffectWithoutAbortingEntries ==
    \A k \in Keys :
       (<>[](ValidEntry(k) /\ NoAbortingEntry) /\ []<>RefreshStarts)
          => <>InSnapshot(k)

\* C24 witness: with a valid entry in the store and every call resolved, a
\* refresh has ended in the outer catch on another entry and the valid
\* entry's provider is not in the snapshot.
C24_Witness ==
    \E k \in Keys, r \in Reqs :
       /\ ValidEntry(k)
       /\ req[r].pc = "assign"
       /\ req[r].caught \in {"TypeError", "MissingSecret"}
       /\ ~req[r].kvFailed
       /\ ~InSnapshot(k)

====
